---------------------------- MODULE Spec2Model ----------------------------
(***************************************************************************)
(* A model of hayward_tennis_sync.py: the availability parser, the         *)
(* interval consolidator, the event differ, the calendar reader, the       *)
(* fetcher, the fetch loop and the reconciliation loop of main; and of     *)
(* delete_all_events.py: its reader, its delete and its main.              *)
(*                                                                         *)
(* Conventions of the model                                                *)
(*   - a Python str whose characters the code inspects (resource names,    *)
(*     slot labels, event summaries) is a sequence of one-character        *)
(*     strings, so split / replace / startswith / slicing are computed; a  *)
(*     payload holds its names and labels as literals, which Chars spells  *)
(*     out for the parser;                                                 *)
(*   - a Python dict is an association list <<key, value>> in insertion    *)
(*     order, so iteration order is the code's;                            *)
(*   - a date string "YYYY-MM-DD" is the ordinal of its day; a datetime is *)
(*     the number of wall-clock minutes since day 0, 00:00; a rendered     *)
(*     ISO timestamp is the tuple <<day, hour, minute>>.                   *)
(***************************************************************************)
EXTENDS Integers, Sequences, FiniteSets, TLC

VARIABLES
    pc,                 \* position of the modelled call / of main
    json_data,          \* parse_reservation_data: the payload
    reserve_date,       \* parse_reservation_data: the date argument
    daily_data,         \* what parse_reservation_data returned or raised
    all_parsed_data,    \* canonical availability (parsed_data of consolidate)
    desired_state,      \* what consolidate_booked_slots returned
    desired_slots,      \* diff_events: desired mapping of one location
    existing_events,    \* diff_events: events listed from the calendar
    events_to_create,   \* diff_events: first component of the result
    events_to_delete,   \* diff_events: second component of the result
    calendars,          \* the events each calendar holds, by calendar id
    next_id,            \* the id the calendar service gives the next insert
    dry_run,            \* main: args.dry_run
    run,                \* main: which run of the script this is
    location_index,     \* main: position in LOCATION_TO_CALENDAR.items()
    event_index,        \* main: position in events_to_create / _to_delete
    list_failed,        \* the locations whose listing has failed so far
    calls,              \* the calendar requests this run has issued, in order
    outbound,           \* requests sent upstream and sleeps taken, in order
    throttle_seconds,   \* main: args.throttle
    date_index,         \* main: position in sync_dates
    days                \* delete_all_events.main: args.days

\* the variables of the reconciliation loop of main
\* the variables of the fetch loop of main and of delete_all_events.main
tool_vars == <<outbound, throttle_seconds, date_index, days>>

sync_vars == <<calendars, next_id, dry_run, run, location_index, event_index,
               list_failed, calls, tool_vars>>

vars == <<pc, json_data, reserve_date, daily_data, all_parsed_data,
          desired_state, desired_slots, existing_events, events_to_create,
          events_to_delete, sync_vars>>

\* The value of a variable a specification does not use.
Unused == "unused"

SyncUnused ==
    /\ calendars = Unused /\ next_id = Unused /\ dry_run = Unused
    /\ run = Unused /\ location_index = Unused /\ event_index = Unused
    /\ list_failed = Unused /\ calls = Unused
    /\ outbound = Unused /\ throttle_seconds = Unused
    /\ date_index = Unused /\ days = Unused

---------------------------------------------------------------------------
\* Bounds of the enumerated inputs.

\* diff_events: longest interval list of one court in desired_slots.
MaxIntervals == 1
\* diff_events: longest list of existing events.
MaxExisting == 2
\* consolidate_booked_slots: slot entries in the whole canonical availability.
MaxSlots == 3
\* parse_reservation_data: time slots, resources and details in the payload.
MaxItems == 4
\* calendar service: the longest page a list response carries.
PageSize == 2
\* main: runs of the script, one after the other.
MaxRuns == 2

---------------------------------------------------------------------------
\* Sequences and Python dicts.

Range(s) == {s[i] : i \in 1..Len(s)}

Min(a, b) == IF a <= b THEN a ELSE b

\* All sequences over S of length at most n.
SeqsUpTo(S, n) == UNION {[1..k -> S] : k \in 0..n}

\* All sequences over S of length at most n without a repeated element.
DistinctSeqsUpTo(S, n) ==
    {s \in SeqsUpTo(S, n) : \A i, j \in 1..Len(s) : i # j => s[i] # s[j]}

\* list comprehension [f(x) for x in s]
RECURSIVE ConcatAll(_)
ConcatAll(ss) == IF ss = <<>> THEN <<>> ELSE Head(ss) \o ConcatAll(Tail(ss))

\* dict: keys in insertion order
DictKeys(d) == [i \in 1..Len(d) |-> d[i][1]]

\* key in d
DictHas(d, k) == \E i \in 1..Len(d) : d[i][1] = k

\* d[k]
DictGet(d, k) == d[CHOOSE i \in 1..Len(d) : d[i][1] = k][2]

\* d[k] = v : an existing key keeps its position, a new key is appended
DictSet(d, k, v) ==
    IF DictHas(d, k)
    THEN [i \in 1..Len(d) |-> IF d[i][1] = k THEN <<k, v>> ELSE d[i]]
    ELSE Append(d, <<k, v>>)

\* d.update(e)
RECURSIVE DictUpdate(_, _)
DictUpdate(d, e) ==
    IF e = <<>> THEN d
    ELSE DictUpdate(DictSet(d, Head(e)[1], Head(e)[2]), Tail(e))

\* A well-formed dict has no repeated key.
IsDict(d) == \A i, j \in 1..Len(d) : i # j => d[i][1] # d[j][1]

---------------------------------------------------------------------------
\* Strings the code takes apart.

Mervin == <<"M", "e", "r", "v", "i", "n">>
Bay == <<"B", "a", "y">>
Court1 == <<"C", "o", "u", "r", "t", " ", "1">>
Court2 == <<"C", "o", "u", "r", "t", " ", "2">>
Court3 == <<"C", "o", "u", "r", "t", " ", "3">>

\* LOCATION_TO_CALENDAR, in the order of its literal; the calendar ids are
\* abbreviated to their first characters.
LOCATION_TO_CALENDAR == << <<Mervin, "c1b24574">>, <<Bay, "8320fe0a">> >>

---------------------------------------------------------------------------
\* Python str operations

\* s.find(sub, i - 1) + 1: the first position from i on where sub occurs in
\* s, 0 when none
RECURSIVE FindFrom(_, _, _)
FindFrom(s, sub, i) ==
    IF i + Len(sub) - 1 > Len(s) THEN 0
    ELSE IF SubSeq(s, i, i + Len(sub) - 1) = sub THEN i
    ELSE FindFrom(s, sub, i + 1)

\* s.find(sub) + 1
Find(s, sub) == FindFrom(s, sub, 1)

\* sub in s
Contains(s, sub) == Find(s, sub) # 0

\* s.split(sep, 1): cut at the first separator only
SplitFirst(s, sep) ==
    LET at == Find(s, sep)
    IN  IF at = 0 THEN <<s>>
        ELSE <<SubSeq(s, 1, at - 1), SubSeq(s, at + Len(sep), Len(s))>>

\* s.split(sep): cut at every separator, left to right
RECURSIVE Split(_, _)
Split(s, sep) ==
    LET at == Find(s, sep)
    IN  IF at = 0 THEN <<s>>
        ELSE <<SubSeq(s, 1, at - 1)>>
                \o Split(SubSeq(s, at + Len(sep), Len(s)), sep)

\* s.replace(old, new): every occurrence, left to right
RECURSIVE Replace(_, _, _)
Replace(s, old, new) ==
    LET at == Find(s, old)
    IN  IF at = 0 THEN s
        ELSE SubSeq(s, 1, at - 1) \o new
                \o Replace(SubSeq(s, at + Len(old), Len(s)), old, new)

\* s.startswith(prefix)
StartsWith(s, prefix) ==
    Len(s) >= Len(prefix) /\ SubSeq(s, 1, Len(prefix)) = prefix

\* s[:n]
Prefix(s, n) == SubSeq(s, 1, Min(n, Len(s)))

---------------------------------------------------------------------------
\* parse_reservation_data

\* "Tennis Court", " - ", "Tennis Court " and "Court " of lines 170-176
TennisCourt == <<"T", "e", "n", "n", "i", "s", " ", "C", "o", "u", "r", "t">>
Separator == <<" ", "-", " ">>
TennisCourtSp == TennisCourt \o <<" ">>
CourtSp == <<"C", "o", "u", "r", "t", " ">>

\* What the call did: returned `result`, or raised `raised` with a message
\* that names the keys `names`.
Returned(result) == [raised |-> "", names |-> {}, result |-> result]
Raised(exception, names) == [raised |-> exception, names |-> names, result |-> <<>>]

\* The resource names and slot labels of the payloads, spelled out. A payload
\* holds them as the literals; the parser works on their characters.
NameMervin1 == Mervin \o Separator \o TennisCourtSp \o <<"1">>
NameIndoor ==
    Bay \o Separator \o <<"I", "n", "d", "o", "o", "r", " ">> \o TennisCourtSp \o <<"1">>
NameBay1 == Bay \o Separator \o TennisCourtSp \o <<"1">>
Weekes == <<"W", "e", "e", "k", "e", "s">>
NameWeekes1 == Weekes \o Separator \o TennisCourtSp \o <<"1">>
NamePool == Bay \o Separator \o <<"P", "o", "o", "l">>
NameEast ==
    Bay \o Separator \o <<"E", "a", "s", "t">> \o Separator \o TennisCourtSp \o <<"1">>
NameBare == Bay \o Separator \o TennisCourt
NameNoGroup == TennisCourtSp \o <<"5">>
Slot0900 == <<"0", "9", ":", "0", "0", "-", "0", "9", ":", "3", "0">>
Slot0930 == <<"0", "9", ":", "3", "0", "-", "1", "0", ":", "0", "0">>
Slot0900s == <<"0", "9", ":", "0", "0", ":", "0", "0">>

\* the characters of a str
Chars(str) ==
    CASE str = "Mervin - Tennis Court 1" -> NameMervin1
      [] str = "Bay - Indoor Tennis Court 1" -> NameIndoor
      [] str = "Bay - Tennis Court 1" -> NameBay1
      [] str = "Weekes - Tennis Court 1" -> NameWeekes1
      [] str = "Bay - Pool" -> NamePool
      [] str = "Bay - East - Tennis Court 1" -> NameEast
      [] str = "Bay - Tennis Court" -> NameBare
      [] str = "Tennis Court 5" -> NameNoGroup
      [] str = "09:00-09:30" -> Slot0900
      [] str = "09:30-10:00" -> Slot0930
      [] str = "09:00:00" -> Slot0900s
      [] str = "" -> <<>>

\* parts = resource_name.split(" - ")
name_parts_first(resource_name) == SplitFirst(Chars(resource_name), Separator)
name_parts(resource_name) == Split(Chars(resource_name), Separator)

\* lines 169-173: the entry is taken when its name is not empty, holds the
\* marker and splits in exactly two parts
is_recognized(res) ==
    /\ res.resource_name # ""
    /\ Contains(Chars(res.resource_name), TennisCourt)
    /\ Len(name_parts(res.resource_name)) = 2

location_of(res) == name_parts(res.resource_name)[1]

court_name_of(res) ==
    Replace(name_parts(res.resource_name)[2], TennisCourtSp, CourtSp)

\* lines 185-190: the value of the slot at index idx. A detail is
\* [status |-> S], S the set of values under its key "status" (empty when
\* the key is absent, where detail.get("status") is None).
reserved_fail_closed(details, idx) ==
    IF idx <= Len(details) THEN details[idx].status = {1} ELSE TRUE
reserved_at(details, idx) ==
    IF idx <= Len(details) THEN details[idx].status = {1} ELSE FALSE

\* lines 182-190: slot_status, built over enumerate(time_slots)
RECURSIVE slot_status_from(_, _, _, _)
slot_status_from(time_slots, details, idx, slot_status) ==
    IF idx > Len(time_slots) THEN slot_status
    ELSE slot_status_from(time_slots, details, idx + 1,
            DictSet(slot_status, Prefix(Chars(time_slots[idx]), 5),
                    reserved_at(details, idx)))

\* lines 168-191: the loop over resources; locations is result[date_str]
RECURSIVE parse_resources(_, _, _)
parse_resources(resources, time_slots, locations) ==
    IF resources = <<>> THEN Returned(locations)
    ELSE LET res == Head(resources)
         IN  IF ~is_recognized(res)
             THEN parse_resources(Tail(resources), time_slots, locations)
             ELSE IF ~res.time_slot_details.is_list
             THEN Raised("ValueError", {"time_slot_details"})
             ELSE LET location == location_of(res)
                      courts == IF DictHas(locations, location)
                                THEN DictGet(locations, location) ELSE <<>>
                      slot_status == slot_status_from(time_slots,
                                         res.time_slot_details.items, 1, <<>>)
                  IN  parse_resources(Tail(resources), time_slots,
                          DictSet(locations, location,
                              DictSet(courts, court_name_of(res), slot_status)))

\* lines 152-195. json_data.shape tells how the bytes decode:
\*   "not_json"                  json.loads raises JSONDecodeError, a ValueError
\*   "json_null"                 the document is null: "body" in None
\*   "json_array"                a list without the element "body"
\*   "object_without_body"       a dict without "body"
\*   "body_null"                 {"body": null}: "availability" in None
\*   "body_without_availability" "body" is a dict (or list) without the key
\*   "availability_null"         {"body": {"availability": null}}: None.get
\*   "object"                    "availability" is a dict; time_slots and
\*                               resources are its fields (is_list FALSE: the
\*                               field is missing or not a list)
parse_reservation_data(data, date_str) ==
    CASE data.shape = "not_json" -> Raised("ValueError", {})
      [] data.shape = "json_null" -> Raised("TypeError", {})
      [] data.shape \in {"json_array", "object_without_body"} ->
            Raised("ValueError", {"body", "availability"})
      [] data.shape = "body_null" -> Raised("TypeError", {})
      [] data.shape = "body_without_availability" ->
            Raised("ValueError", {"body", "availability"})
      [] data.shape = "availability_null" -> Raised("AttributeError", {})
      [] data.shape = "object" ->
            IF ~data.time_slots.is_list
            THEN Raised("ValueError", {"time_slots"})
            ELSE IF ~data.resources.is_list
            THEN Raised("ValueError", {"resources"})
            ELSE LET r == parse_resources(data.resources.items,
                                          data.time_slots.items, <<>>)
                 IN  IF r.raised # "" THEN r
                     ELSE Returned(<< <<date_str, r.result>> >>)

---------------------------------------------------------------------------
\* consolidate_booked_slots

\* ord(c) of the characters slot labels are made of
CharCode(c) ==
    CASE c = "-" -> 45
      [] c = "0" -> 48 [] c = "1" -> 49 [] c = "2" -> 50 [] c = "3" -> 51
      [] c = "4" -> 52 [] c = "5" -> 53 [] c = "6" -> 54 [] c = "7" -> 55
      [] c = "8" -> 56 [] c = "9" -> 57 [] c = ":" -> 58

\* a < b for Python strings: the first differing character decides, a proper
\* prefix comes first
RECURSIVE StrLess(_, _)
StrLess(a, b) ==
    IF b = <<>> THEN FALSE
    ELSE IF a = <<>> THEN TRUE
    ELSE IF Head(a) = Head(b) THEN StrLess(Tail(a), Tail(b))
    ELSE CharCode(Head(a)) < CharCode(Head(b))

\* list.sort() on strings
RECURSIVE InsertSorted(_, _)
InsertSorted(s, x) ==
    IF s = <<>> THEN <<x>>
    ELSE IF StrLess(x, Head(s)) THEN <<x>> \o s
    ELSE <<Head(s)>> \o InsertSorted(Tail(s), x)

RECURSIVE SortStrings(_)
SortStrings(s) ==
    IF s = <<>> THEN <<>>
    ELSE InsertSorted(SortStrings(SubSeq(s, 1, Len(s) - 1)), s[Len(s)])

\* booked_times before the sort: the labels whose value is true, in dict order
booked_times_of(slots) ==
    LET IsBooked(kv) == kv[2]
        booked == SelectSeq(slots, IsBooked)
    IN  [i \in 1..Len(booked) |-> booked[i][1]]

unsorted_booked_times(slots) == booked_times_of(slots)
\* booked_times.sort()
sorted_booked_times(slots) == SortStrings(booked_times_of(slots))

\* timedelta(minutes=30)
SlotMinutes == 30

Digit(c) == CharCode(c) - 48

\* datetime.strptime(f"{date_str} {t}", "%Y-%m-%d %H:%M").replace(tzinfo=tz)
\* for a label t = "HH:MM": wall-clock minutes since day 0
strptime(date_str, t) ==
    date_str * 1440 + (10 * Digit(t[1]) + Digit(t[2])) * 60
        + 10 * Digit(t[4]) + Digit(t[5])

\* datetime.isoformat(): <<day, hour, minute>>
isoformat(dt) == <<dt \div 1440, (dt % 1440) \div 60, dt % 60>>

\* the scan with the extension of line 238 never taken
scan_never_extends(date_str, times, current, events) ==
    events \o [i \in 1..Len(times) |->
                  <<isoformat(strptime(date_str, times[i])),
                    isoformat(strptime(date_str, times[i]) + SlotMinutes)>>]
\* the scan of lines 228-244 over the sorted booked labels; current is <<>>
\* for current_start = None and <<current_start, current_end>> otherwise
RECURSIVE scan_booked(_, _, _, _)
scan_booked(date_str, times, current, events) ==
    IF times = <<>>
    THEN IF current # <<>>
         THEN Append(events, <<isoformat(current[1]), isoformat(current[2])>>)
         ELSE events
    ELSE LET slot_dt == strptime(date_str, Head(times))
         IN  IF current = <<>>
             THEN scan_booked(date_str, Tail(times),
                              <<slot_dt, slot_dt + SlotMinutes>>, events)
             ELSE IF slot_dt = current[2]
             THEN scan_booked(date_str, Tail(times),
                              <<current[1], current[2] + SlotMinutes>>, events)
             ELSE scan_booked(date_str, Tail(times),
                              <<slot_dt, slot_dt + SlotMinutes>>,
                              Append(events, <<isoformat(current[1]),
                                               isoformat(current[2])>>))

\* the (date, location, court, slots) of parsed_data in the order the three
\* nested loops of lines 217-219 visit them
cells_of(parsed_data) ==
    ConcatAll([i \in 1..Len(parsed_data) |->
        ConcatAll([j \in 1..Len(parsed_data[i][2]) |->
            [k \in 1..Len(parsed_data[i][2][j][2]) |->
                [date_str |-> parsed_data[i][1],
                 location |-> parsed_data[i][2][j][1],
                 court |-> parsed_data[i][2][j][2][k][1],
                 slots |-> parsed_data[i][2][j][2][k][2]]]])])

\* one pass of the loop body, lines 220-249
skips_no_cell(cell) == FALSE
\* if not booked_times: continue
skips_cell(cell) == booked_times_of(cell.slots) = <<>>

consolidate_cell(consolidated, cell) ==
    IF skips_cell(cell) THEN consolidated
    ELSE LET events == scan_booked(cell.date_str,
                                   sorted_booked_times(cell.slots), <<>>, <<>>)
             courts == IF DictHas(consolidated, cell.location)
                       THEN DictGet(consolidated, cell.location) ELSE <<>>
             old == IF DictHas(courts, cell.court)
                    THEN DictGet(courts, cell.court) ELSE <<>>
         IN  DictSet(consolidated, cell.location,
                     DictSet(courts, cell.court, old \o events))

RECURSIVE consolidate_cells(_, _)
consolidate_cells(consolidated, cells) ==
    IF cells = <<>> THEN consolidated
    ELSE consolidate_cells(consolidate_cell(consolidated, Head(cells)), Tail(cells))

consolidate_booked_slots(parsed_data) ==
    consolidate_cells(<<>>, cells_of(parsed_data))

---------------------------------------------------------------------------
\* diff_events

\* the identity triple of a desired or an existing event
event_tuple_no_end(event) == <<event.summary, event.start>>
event_tuple(event) == <<event.summary, event.start, event.end>>

\* desired_events: one {"summary", "start", "end"} per court and interval,
\* in the iteration order of desired_slots
desired_events_swapped(slots) ==
    ConcatAll([i \in 1..Len(slots) |->
        [j \in 1..Len(slots[i][2]) |->
            [summary |-> slots[i][1],
             start |-> slots[i][2][j][2],
             end |-> slots[i][2][j][1]]]])
desired_events_of(slots) ==
    ConcatAll([i \in 1..Len(slots) |->
        [j \in 1..Len(slots[i][2]) |->
            [summary |-> slots[i][1],
             start |-> slots[i][2][j][1],
             end |-> slots[i][2][j][2]]]])

diff_events(slots, existing, location_name) ==
    LET desired_events == desired_events_of(slots)
        desired_tuples == {event_tuple(e) : e \in Range(desired_events)}
        existing_tuples == {event_tuple(e) : e \in Range(existing)}
        IsNew(e) == event_tuple(e) \notin existing_tuples
        IsStale(e) == event_tuple(e) \notin desired_tuples
        stale == SelectSeq(existing, IsStale)
    IN  [events_to_create |-> SelectSeq(desired_events, IsNew),
         events_to_delete |-> [i \in 1..Len(stale) |-> stale[i].id]]

---------------------------------------------------------------------------
\* Specification SpecDiff: diff_events applied to enumerated arguments.

\* (start, end) pairs of rendered timestamps of day 1:
\* 09:00-10:00, 09:00-13:00 and 12:00-13:00
DiffIntervals ==
    { << <<1, 9, 0>>, <<1, 10, 0>> >>,
      << <<1, 9, 0>>, <<1, 13, 0>> >>,
      << <<1, 12, 0>>, <<1, 13, 0>> >> }
DiffCourts == {Court1, Court3}
DiffIds == {"a", "b", "c"}

DiffDesiredInputs ==
    {d \in SeqsUpTo(DiffCourts \X SeqsUpTo(DiffIntervals, MaxIntervals), 2) :
        IsDict(d)}

DiffEvents ==
    {[id |-> i, summary |-> c, start |-> t[1], end |-> t[2]] :
        i \in DiffIds, c \in DiffCourts, t \in DiffIntervals}

DiffExistingInputs ==
    {s \in SeqsUpTo(DiffEvents, MaxExisting) :
        \A i, j \in 1..Len(s) : i # j => s[i].id # s[j].id}

InitDiff ==
    /\ pc = "diff"
    /\ desired_slots \in DiffDesiredInputs
    /\ existing_events \in DiffExistingInputs
    /\ events_to_create = <<>>
    /\ events_to_delete = <<>>
    /\ json_data = Unused /\ reserve_date = Unused /\ daily_data = Unused
    /\ all_parsed_data = Unused /\ desired_state = Unused
    /\ SyncUnused

CallDiffEvents ==
    /\ pc = "diff"
    /\ LET r == diff_events(desired_slots, existing_events, Mervin)
       IN  /\ events_to_create' = r.events_to_create
           /\ events_to_delete' = r.events_to_delete
    /\ pc' = "diffed"
    /\ UNCHANGED <<json_data, reserve_date, daily_data, all_parsed_data,
                   desired_state, desired_slots, existing_events, sync_vars>>

NextDiff == CallDiffEvents

SpecDiff == InitDiff /\ [][NextDiff]_vars

---------------------------------------------------------------------------
\* Specification SpecCons: consolidate_booked_slots applied to enumerated
\* canonical availabilities.

L0000 == <<"0", "0", ":", "0", "0">>
L0900 == <<"0", "9", ":", "0", "0">>
L0915 == <<"0", "9", ":", "1", "5">>
L0930 == <<"0", "9", ":", "3", "0">>
L1030 == <<"1", "0", ":", "3", "0">>
L2330 == <<"2", "3", ":", "3", "0">>

\* slot labels: five on the 30-minute grid, one (09:15) off it
ConsLabels == {L0000, L0900, L0915, L0930, L1030, L2330}
\* the two dates of the sync range, as day ordinals
ConsDates == {1, 2}
ConsCourts == {<<Mervin, Court1>>, <<Mervin, Court2>>}

\* a slot entry: any label booked, or the label 09:30 free (the code never
\* looks at the label of a free slot)
ConsEntries == (ConsLabels \X {TRUE}) \cup {<<L0930, FALSE>>}

\* parsed_data[date][location][court][label] = booked, creating what is missing
AddSlot(pd, date, location, court, label, booked) ==
    LET locations == IF DictHas(pd, date) THEN DictGet(pd, date) ELSE <<>>
        courts == IF DictHas(locations, location)
                  THEN DictGet(locations, location) ELSE <<>>
        slots == IF DictHas(courts, court) THEN DictGet(courts, court) ELSE <<>>
    IN  DictSet(pd, date,
            DictSet(locations, location,
                DictSet(courts, court, DictSet(slots, label, booked))))

\* the canonical availabilities that n slot entries build, in every order of
\* dates, locations, courts and labels
RECURSIVE AvailabilitiesUpTo(_)
AvailabilitiesUpTo(n) ==
    IF n = 0 THEN {<<>>}
    ELSE LET P == AvailabilitiesUpTo(n - 1)
         IN  P \cup {AddSlot(pd, d, c[1], c[2], e[1], e[2]) :
                        pd \in P, d \in ConsDates, c \in ConsCourts,
                        e \in ConsEntries}

ConsInputs(n) == AvailabilitiesUpTo(n)

InitCons ==
    /\ pc = "consolidate"
    /\ all_parsed_data \in ConsInputs(MaxSlots)
    /\ desired_state = <<>>
    /\ json_data = Unused /\ reserve_date = Unused /\ daily_data = Unused
    /\ desired_slots = Unused /\ existing_events = Unused
    /\ events_to_create = Unused /\ events_to_delete = Unused
    /\ SyncUnused

CallConsolidate ==
    /\ pc = "consolidate"
    /\ desired_state' = consolidate_booked_slots(all_parsed_data)
    /\ pc' = "consolidated"
    /\ UNCHANGED <<json_data, reserve_date, daily_data, all_parsed_data,
                   desired_slots, existing_events, events_to_create,
                   events_to_delete, sync_vars>>

NextCons == CallConsolidate

SpecCons == InitCons /\ [][NextCons]_vars

---------------------------------------------------------------------------
\* Specification SpecParse: parse_reservation_data applied to enumerated
\* payloads.

\* slot labels: the first and the third share their first five characters
ParseLabels == {"09:00-09:30", "09:30-10:00", "09:00:00"}

\* resource names: a court of one group; a court of the other group, its
\* marker without a following space; a name without the marker; the
\* separator twice; the marker without a separator
ParseNames ==
    {"Mervin - Tennis Court 1", "Bay - Tennis Court", "Bay - Pool",
     "Bay - East - Tennis Court 1", "Tennis Court 5"}

\* the "status" of a detail: 1, 0 or absent
ParseStatuses == {{1}, {0}, {}}

List(items) == [is_list |-> TRUE, items |-> items]
NotAList == [is_list |-> FALSE, items |-> <<>>]

\* what a payload grows by: a time slot, a resource (any name with an empty
\* time_slot_details list; a name with the marker and a name without it also
\* with a time_slot_details that is not a list), or a detail
ParseItems ==
    {[kind |-> "time_slot", label |-> t, name |-> "", details |-> NotAList,
      status |-> {}] : t \in ParseLabels}
    \cup {[kind |-> "resource", label |-> "", name |-> n, details |-> List(<<>>),
           status |-> {}] : n \in ParseNames}
    \cup {[kind |-> "resource", label |-> "", name |-> n, details |-> NotAList,
           status |-> {}] : n \in {"Mervin - Tennis Court 1", "Bay - Pool"}}
    \cup {[kind |-> "detail", label |-> "", name |-> "", details |-> NotAList,
           status |-> s] : s \in ParseStatuses}

\* p with the item appended: a time slot to time_slots when that is a list,
\* a resource to resources, a detail to the time_slot_details of the last
\* resource when that is a list; p itself when the item has no place
Extend(p, item) ==
    LET rs == p.resources.items
    IN  CASE item.kind = "time_slot" /\ p.time_slots.is_list ->
                [p EXCEPT !.time_slots.items = Append(@, item.label)]
          [] item.kind = "resource" ->
                [p EXCEPT !.resources.items = Append(@,
                    [resource_name |-> item.name,
                     time_slot_details |-> item.details])]
          [] item.kind = "detail" /\ rs # <<>>
                /\ rs[Len(rs)].time_slot_details.is_list ->
                [p EXCEPT !.resources.items[Len(rs)].time_slot_details.items =
                    Append(@, [status |-> item.status])]
          [] OTHER -> p

\* the well-shaped payloads of at most n time slots, resources and details,
\* their time_slots a list or not
RECURSIVE PayloadsUpTo(_)
PayloadsUpTo(n) ==
    IF n = 0
    THEN {[shape |-> "object", time_slots |-> ts, resources |-> List(<<>>)] :
              ts \in {List(<<>>), NotAList}}
    ELSE LET P == PayloadsUpTo(n - 1)
         IN  P \cup {Extend(p, item) : p \in P, item \in ParseItems}

\* the payloads that stop before the resources are looked at
MalformedShapes ==
    {"not_json", "json_null", "json_array", "object_without_body", "body_null",
     "body_without_availability", "availability_null"}

ParseInputs(n) ==
    PayloadsUpTo(n)
    \cup {[shape |-> "object", time_slots |-> ts, resources |-> NotAList] :
              ts \in {List(<<>>), NotAList}}
    \cup {[shape |-> s, time_slots |-> NotAList, resources |-> NotAList] :
              s \in MalformedShapes}

InitParse ==
    /\ pc = "parse"
    /\ json_data \in ParseInputs(MaxItems)
    /\ reserve_date = 1
    /\ daily_data = Unused
    /\ all_parsed_data = Unused /\ desired_state = Unused
    /\ desired_slots = Unused /\ existing_events = Unused
    /\ events_to_create = Unused /\ events_to_delete = Unused
    /\ SyncUnused

CallParse ==
    /\ pc = "parse"
    /\ daily_data' = parse_reservation_data(json_data, reserve_date)
    /\ pc' = "parsed"
    /\ UNCHANGED <<json_data, reserve_date, all_parsed_data, desired_state,
                   desired_slots, existing_events, events_to_create,
                   events_to_delete, sync_vars>>

NextParse == CallParse

SpecParse == InitParse /\ [][NextParse]_vars

---------------------------------------------------------------------------
\* The calendar service and Workspace_calendar_events

\* datetime.fromisoformat of a rendered timestamp, in minutes
fromisoformat(ts) == ts[1] * 1440 + ts[2] * 60 + ts[3]

\* events().list(timeMin, timeMax, orderBy='startTime'): the stored events
\* that end after timeMin and start before timeMax, by start time
RECURSIVE insert_by_start(_, _)
insert_by_start(event, sorted) ==
    IF sorted = <<>> THEN <<event>>
    ELSE IF fromisoformat(event.start) < fromisoformat(Head(sorted).start)
         THEN <<event>> \o sorted
         ELSE <<Head(sorted)>> \o insert_by_start(event, Tail(sorted))

RECURSIVE order_by_start(_)
order_by_start(events) ==
    IF events = <<>> THEN <<>>
    ELSE insert_by_start(events[Len(events)],
                         order_by_start(SubSeq(events, 1, Len(events) - 1)))

events_list(stored, time_min, time_max) ==
    LET InWindow(e) == /\ fromisoformat(e.end) > fromisoformat(time_min)
                       /\ fromisoformat(e.start) < fromisoformat(time_max)
    IN  order_by_start(SelectSeq(stored, InWindow))

\* events().insert(body): the event is stored as given, under a fresh id
events_insert(stored, id, summary, start, end) ==
    Append(stored, [id |-> id, summary |-> summary, start |-> start, end |-> end])

\* events().delete(eventId)
events_delete(stored, id) ==
    LET Other(e) == e.id # id
    IN  SelectSeq(stored, Other)

\* one response of events().list(pageToken): the next PageSize events of
\* what the service lists, and a nextPageToken when more remain. A token is
\* the number of events the earlier pages carried (None is 0); a response
\* without the key has nextPageToken = {}.
list_response(matching, page_token) ==
    LET last == Min(page_token + PageSize, Len(matching))
    IN  [items |-> SubSeq(matching, page_token + 1, last),
         nextPageToken |-> IF last < Len(matching) THEN {last} ELSE {}]

\* line 305: event.get("summary", ""); an event without a title has no key
summary_of(event) ==
    IF "summary" \in DOMAIN event THEN event.summary ELSE <<>>

\* line 307: summary.startswith("Court ")
keeps_any_summary(event) == TRUE
keeps_summary(event) == StartsWith(summary_of(event), CourtSp)

\* lines 308-315
event_record(event) ==
    [id |-> event.id, summary |-> summary_of(event),
     start |-> event.start, end |-> event.end]

\* lines 304-315: the records of the events of a page that are kept
RECURSIVE kept_of(_)
kept_of(items) ==
    IF items = <<>> THEN <<>>
    ELSE (IF keeps_summary(Head(items)) THEN <<event_record(Head(items))>>
          ELSE <<>>) \o kept_of(Tail(items))

\* lines 289-318: one request per page until a response has no
\* nextPageToken; matching is what the service lists, in order, and requests
\* counts the list requests sent
RECURSIVE read_pages(_, _, _, _)
read_pages(matching, page_token, events, requests) ==
    LET response == list_response(matching, page_token)
        collected == events \o kept_of(response.items)
    IN  IF response.nextPageToken = {}
        THEN [events |-> collected, requests |-> requests + 1]
        ELSE read_pages(matching,
                        CHOOSE token \in response.nextPageToken : TRUE,
                        collected, requests + 1)

Workspace_calendar_events(stored, time_min_iso, time_max_iso) ==
    read_pages(events_list(stored, time_min_iso, time_max_iso), 0, <<>>, 0).events

\* the list requests one call of Workspace_calendar_events sends
list_requests(stored, time_min_iso, time_max_iso) ==
    read_pages(events_list(stored, time_min_iso, time_max_iso), 0, <<>>, 0).requests

---------------------------------------------------------------------------
\* main, from line 455 on: consolidation and the loop over the locations.
\* It is entered with the all_parsed_data that the loop of lines 443-452
\* merges from one parsed payload per date of the sync range.

\* num_days of get_sync_date_range
NumDays == 2

\* get_sync_date_range: num_days consecutive dates from today + 2 on
get_sync_date_range(today, num_days) ==
    [i \in 1..num_days |-> today + 2 + (i - 1)]

\* the dates of a run started on day 0
sync_dates == get_sync_date_range(0, NumDays)

\* lines 459-462
time_min == <<sync_dates[1], 0, 0>>
time_max == <<sync_dates[Len(sync_dates)] + 1, 0, 0>>

\* the location and the calendar the loop of line 465 is at
location_at(i) == LOCATION_TO_CALENDAR[i][1]
calendar_id_at(i) == LOCATION_TO_CALENDAR[i][2]

\* The answers of the calendar service: the request is done, or it raises an
\* HttpError whose status is 404 (not found), 410 (gone: the event was
\* deleted before) or 500.
Done == <<"2", "0", "0">>
NotFound == <<"4", "0", "4">>
Gone == <<"4", "1", "0">>
ServerError == <<"5", "0", "0">>

DeleteAnswers == {Done, NotFound, Gone, ServerError}

\* str(e) of the HttpError of a status: '<HttpError 404 when requesting ...'
str_of_error(status) ==
    <<"<", "H", "t", "t", "p", "E", "r", "r", "o", "r", " ">> \o status

\* a request main has issued to the calendar service, and its answer
Request(op, calendar_id, what, answer) ==
    [op |-> op, calendar_id |-> calendar_id, what |-> what, answer |-> answer]

\* lines 380-382: create_google_event returns before the insert when dry_run
create_never_dry(flag) == FALSE
create_is_dry(flag) == flag

\* line 415: the run goes on after the exception e of a delete
delete_goes_on_always(e) == TRUE
delete_goes_on(e) == Contains(str_of_error(e), NotFound)

\* the exit status of a run that has ended: 0 after line 485, 1 after
\* sys.exit(1) and after an exception nobody caught
exit_status ==
    CASE pc = "completed" -> 0
      [] pc = "exited" -> 1
      [] pc = "raised" -> 1

\* line 455
MainConsolidate ==
    /\ pc = "sync_consolidate"
    /\ desired_state' = consolidate_booked_slots(all_parsed_data)
    /\ location_index' = 1
    /\ pc' = "sync_location"
    /\ UNCHANGED <<tool_vars, calls, json_data, reserve_date, daily_data, all_parsed_data,
                   desired_slots, existing_events, events_to_create,
                   events_to_delete, calendars, next_id, dry_run, run,
                   event_index, list_failed>>

\* lines 465-469 and 485: the next location, skipped when desired_state has
\* no entry for it; the run is complete after the last one
MainNextLocation ==
    /\ pc = "sync_location"
    /\ IF location_index > Len(LOCATION_TO_CALENDAR)
       THEN pc' = "completed" /\ UNCHANGED location_index
       ELSE IF ~DictHas(desired_state, location_at(location_index))
       THEN pc' = "sync_location" /\ location_index' = location_index + 1
       ELSE pc' = "sync_list" /\ UNCHANGED location_index
    /\ UNCHANGED <<tool_vars, calls, json_data, reserve_date, daily_data, all_parsed_data,
                   desired_state, desired_slots, existing_events,
                   events_to_create, events_to_delete, calendars, next_id,
                   dry_run, run, event_index, list_failed>>

\* lines 473-475: the exception of a listing is logged as a warning and the
\* loop continues with the next location
list_failure_exits(index) == [pc |-> "exited", location_index |-> index]
on_list_failure(index) == [pc |-> "sync_location", location_index |-> index + 1]

\* lines 471-475: the listing returns, or one of its list requests raises
\* and the location is left; the log keeps how many requests were sent
MainListEvents ==
    /\ pc = "sync_list"
    /\ \E failed_at \in 0..list_requests(
               calendars[calendar_id_at(location_index)], time_min, time_max) :
       LET ok == failed_at = 0
           sent == IF ok THEN list_requests(
                           calendars[calendar_id_at(location_index)],
                           time_min, time_max)
                   ELSE failed_at
       IN
          /\ calls' = Append(calls, Request("list",
                          calendar_id_at(location_index), sent,
                          IF ok THEN Done ELSE ServerError))
          /\ IF ok
             THEN /\ existing_events' = Workspace_calendar_events(
                         calendars[calendar_id_at(location_index)],
                         time_min, time_max)
                  /\ pc' = "sync_diff"
                  /\ UNCHANGED <<location_index, list_failed>>
             ELSE /\ list_failed' = list_failed \cup {location_at(location_index)}
                  /\ location_index' = on_list_failure(location_index).location_index
                  /\ pc' = on_list_failure(location_index).pc
                  /\ UNCHANGED existing_events
    /\ UNCHANGED <<tool_vars, json_data, reserve_date, daily_data, all_parsed_data,
                   desired_state, desired_slots, events_to_create,
                   events_to_delete, calendars, next_id, dry_run, run,
                   event_index>>

\* line 477, the deletes applied first
MainDiffEventsDeletesFirst ==
    /\ pc = "sync_diff"
    /\ LET r == diff_events(DictGet(desired_state, location_at(location_index)),
                            existing_events, location_at(location_index))
       IN  /\ events_to_create' = r.events_to_create
           /\ events_to_delete' = r.events_to_delete
    /\ event_index' = 1
    /\ pc' = "sync_delete"
    /\ UNCHANGED <<tool_vars, calls, json_data, reserve_date, daily_data,
                   all_parsed_data, desired_state, desired_slots,
                   existing_events, calendars, next_id, dry_run, run,
                   location_index, list_failed>>

\* line 477
MainDiffEvents ==
    /\ pc = "sync_diff"
    /\ LET r == diff_events(DictGet(desired_state, location_at(location_index)),
                            existing_events, location_at(location_index))
       IN  /\ events_to_create' = r.events_to_create
           /\ events_to_delete' = r.events_to_delete
    /\ event_index' = 1
    /\ pc' = "sync_create"
    /\ UNCHANGED <<tool_vars, calls, json_data, reserve_date, daily_data, all_parsed_data,
                   desired_state, desired_slots, existing_events, calendars,
                   next_id, dry_run, run, location_index, list_failed>>

\* lines 480-481 and create_google_event: nothing in a dry run; otherwise
\* the insert stores the event, or raises and the run exits with status 1
MainCreateEvent ==
    /\ pc = "sync_create"
    /\ event_index <= Len(events_to_create)
    /\ LET event == events_to_create[event_index]
           calendar_id == calendar_id_at(location_index)
       IN  IF create_is_dry(dry_run)
           THEN /\ event_index' = event_index + 1
                /\ UNCHANGED <<pc, calendars, next_id, calls>>
           ELSE \E ok \in BOOLEAN :
                   /\ calls' = Append(calls, Request("insert", calendar_id,
                                   event, IF ok THEN Done ELSE ServerError))
                   /\ IF ok
                      THEN /\ calendars' = [calendars EXCEPT ![calendar_id] =
                                  events_insert(@, next_id, event.summary,
                                                event.start, event.end)]
                           /\ next_id' = next_id + 1
                           /\ event_index' = event_index + 1
                           /\ UNCHANGED pc
                      ELSE /\ pc' = "exited"
                           /\ UNCHANGED <<calendars, next_id, event_index>>
    /\ UNCHANGED <<tool_vars, json_data, reserve_date, daily_data, all_parsed_data,
                   desired_state, desired_slots, existing_events,
                   events_to_create, events_to_delete, dry_run, run,
                   location_index, list_failed>>

\* line 482: the creates are done, the deletes begin
MainCreatesDone ==
    /\ pc = "sync_create"
    /\ event_index > Len(events_to_create)
    /\ event_index' = 1
    /\ pc' = "sync_delete"
    /\ UNCHANGED <<tool_vars, calls, json_data, reserve_date, daily_data, all_parsed_data,
                   desired_state, desired_slots, existing_events,
                   events_to_create, events_to_delete, calendars, next_id,
                   dry_run, run, location_index, list_failed>>

\* lines 482-483 and delete_google_event: nothing in a dry run; otherwise
\* the delete removes the event, or raises: with '404' in the message the
\* run goes on, with any other message it exits. After the answers 404 and
\* 410 the calendar does not hold the event (somebody else removed it).
MainDeleteEvent ==
    /\ pc = "sync_delete"
    /\ event_index <= Len(events_to_delete)
    /\ LET event_id == events_to_delete[event_index]
           calendar_id == calendar_id_at(location_index)
       IN  IF dry_run
           THEN /\ event_index' = event_index + 1
                /\ UNCHANGED <<pc, calendars, calls>>
           ELSE \E answer \in DeleteAnswers :
                   /\ calls' = Append(calls, Request("delete", calendar_id,
                                   event_id, answer))
                   /\ calendars' = [calendars EXCEPT ![calendar_id] =
                          IF answer \in {Done, NotFound, Gone}
                          THEN events_delete(@, event_id) ELSE @]
                   /\ IF answer = Done \/ delete_goes_on(answer)
                      THEN event_index' = event_index + 1 /\ UNCHANGED pc
                      ELSE pc' = "exited" /\ UNCHANGED event_index
    /\ UNCHANGED <<tool_vars, json_data, reserve_date, daily_data, all_parsed_data,
                   desired_state, desired_slots, existing_events,
                   events_to_create, events_to_delete, next_id, dry_run, run,
                   location_index, list_failed>>

\* the deletes are done: back to line 465 for the next location
MainDeletesDone ==
    /\ pc = "sync_delete"
    /\ event_index > Len(events_to_delete)
    /\ location_index' = location_index + 1
    /\ pc' = "sync_location"
    /\ UNCHANGED <<tool_vars, calls, json_data, reserve_date, daily_data, all_parsed_data,
                   desired_state, desired_slots, existing_events,
                   events_to_create, events_to_delete, calendars, next_id,
                   dry_run, run, event_index, list_failed>>

\* the script is started again, in the same mode, and merges the same
\* availability
MainNextRun ==
    /\ pc = "completed"
    /\ run < MaxRuns
    /\ run' = run + 1
    /\ pc' = "sync_consolidate"
    /\ calls' = <<>>
    /\ UNCHANGED <<tool_vars, json_data, reserve_date, daily_data, all_parsed_data,
                   desired_state, desired_slots, existing_events,
                   events_to_create, events_to_delete, calendars, next_id,
                   dry_run, location_index, event_index, list_failed>>

---------------------------------------------------------------------------
\* Specification SpecSync: the runs of main from line 455 on, over in-memory
\* calendars.

\* a resource entry with the details of the two slots
Resource(name, first, second) ==
    [resource_name |-> name,
     time_slot_details |-> List(<<[status |-> {first}], [status |-> {second}]>>)]

\* what a payload says of Mervin: nothing; Court 1 booked twice, once, never
SyncMervinEntries ==
    {<<>>,
     <<Resource("Mervin - Tennis Court 1", 1, 1)>>,
     <<Resource("Mervin - Tennis Court 1", 1, 0)>>,
     <<Resource("Mervin - Tennis Court 1", 0, 0)>>}

\* what a payload says of Bay: nothing; Court 1 booked once; the indoor court
\* booked once; nothing of Bay, but Court 1 of Weekes, a location without a
\* calendar, booked once
SyncBayEntries ==
    {<<>>,
     <<Resource("Bay - Tennis Court 1", 0, 1)>>,
     <<Resource("Bay - Indoor Tennis Court 1", 1, 0)>>,
     <<Resource("Weekes - Tennis Court 1", 1, 0)>>}

\* the payloads of a date: the slots 09:00 and 09:30
SyncPayloads ==
    {[shape |-> "object",
      time_slots |-> List(<<"09:00-09:30", "09:30-10:00">>),
      resources |-> List(m \o b)] : m \in SyncMervinEntries, b \in SyncBayEntries}

\* lines 443-452: all_parsed_data after the payload of every date is parsed
\* and merged
RECURSIVE merged_from(_, _, _)
merged_from(payloads, i, merged) ==
    IF i > Len(sync_dates) THEN merged
    ELSE merged_from(payloads, i + 1,
            DictUpdate(merged,
                parse_reservation_data(payloads[i], sync_dates[i]).result))

SyncAvailabilities ==
    {merged_from(payloads, 1, <<>>) :
        payloads \in [1..Len(sync_dates) -> SyncPayloads]}

\* events a calendar holds before the first run: Court 1 on the first date
\* from 09:00 to 10:00, a lesson somebody else entered, and Court 1 three
\* days after the window
StoredCourt1 ==
    [id |-> 1, summary |-> Court1,
     start |-> <<sync_dates[1], 9, 0>>, end |-> <<sync_dates[1], 10, 0>>]
StoredLesson ==
    [id |-> 2, summary |-> <<"L", "e", "s", "s", "o", "n">>,
     start |-> <<sync_dates[1], 9, 0>>, end |-> <<sync_dates[1], 10, 0>>]
StoredLater ==
    [id |-> 3, summary |-> Court1,
     start |-> <<sync_dates[Len(sync_dates)] + 3, 9, 0>>,
     end |-> <<sync_dates[Len(sync_dates)] + 3, 10, 0>>]

\* an event without a title on the last date
StoredUntitled ==
    [id |-> 4,
     start |-> <<sync_dates[Len(sync_dates)], 9, 0>>,
     end |-> <<sync_dates[Len(sync_dates)], 10, 0>>]

SyncStored ==
    {<<>>, <<StoredCourt1>>,
     <<StoredLesson, StoredCourt1, StoredLater, StoredUntitled>>}

InitSync ==
    /\ pc = "sync_consolidate"
    /\ all_parsed_data \in SyncAvailabilities
    /\ calendars \in [{calendar_id_at(i) : i \in 1..Len(LOCATION_TO_CALENDAR)}
                        -> SyncStored]
    /\ next_id = StoredUntitled.id + 1
    /\ dry_run \in BOOLEAN
    /\ run = 1
    /\ desired_state = <<>>
    /\ existing_events = <<>>
    /\ events_to_create = <<>>
    /\ events_to_delete = <<>>
    /\ location_index = 1
    /\ event_index = 1
    /\ list_failed = {}
    /\ calls = <<>>
    /\ json_data = Unused /\ reserve_date = Unused /\ daily_data = Unused
    /\ desired_slots = Unused
    /\ outbound = Unused /\ throttle_seconds = Unused
    /\ date_index = Unused /\ days = Unused

NextSync ==
    \/ MainConsolidate
    \/ MainNextLocation
    \/ MainListEvents
    \/ MainDiffEvents
    \/ MainCreateEvent
    \/ MainCreatesDone
    \/ MainDeleteEvent
    \/ MainDeletesDone
    \/ MainNextRun

SpecSync == InitSync /\ [][NextSync]_vars

---------------------------------------------------------------------------
\* main, lines 437-445, and Workspace_hayward_data (lines 76-125).
\*
\* outbound is what a run did towards the reservation source, in order:
\*   [kind |-> "call", arg |-> <<date, seconds>>, ok]  the call of line 445,
\*                                   ok when the arguments bound;
\*   [kind |-> "get",  arg |-> T, ok]  a session.get, ok when the status was
\*                                   good, T = {"token"} when the page held a
\*                                   CSRF token and {} when not;
\*   [kind |-> "sleep", arg |-> seconds, ok |-> TRUE]  a time.sleep;
\*   [kind |-> "post", arg |-> date, ok]  the session.post for a date.

\* line 20, in tenths of a second
DEFAULT_THROTTLE == 15

\* the values of --throttle
Throttles == {0, DEFAULT_THROTTLE, 2 * DEFAULT_THROTTLE}

Sent(kind, arg, ok) == [kind |-> kind, arg |-> arg, ok |-> ok]

\* find_csrf_token: the token of the page, None when it has none
Tokens == {{}, {"token"}}

\* line 76: the parameters of Workspace_hayward_data
fetcher_parameters == <<"date_str", "throttle_seconds">>

\* line 445: the arguments main passes
fetcher_arguments(date_str) == <<date_str, "args.throttle", "csrf_token">>

\* a call with positional arguments of a function without defaults returns
\* only when there are as many arguments as parameters; otherwise it raises
\* TypeError before the body runs
binds(arguments, parameters) == Len(arguments) = Len(parameters)

\* nothing catches an exception of line 441 or 445: main ends, at the date
\* it was at
fetch_failure_skips(index) == [pc |-> "main_fetch", date_index |-> index + 1]
on_fetch_failure(index) == [pc |-> "raised", date_index |-> index]

\* line 441, get_csrf_token (lines 63-74): one request without a sleep;
\* raise_for_status raises on a bad status
MainGetCsrfToken ==
    /\ pc = "main_csrf"
    /\ \E ok \in BOOLEAN, token \in Tokens :
          /\ ok \/ token = {}
          /\ outbound' = Append(outbound, Sent("get", token, ok))
          /\ pc' = IF ok THEN "main_fetch" ELSE on_fetch_failure(date_index).pc
    /\ UNCHANGED <<throttle_seconds, date_index, days, calls, json_data,
                   reserve_date, daily_data, all_parsed_data, desired_state,
                   desired_slots, existing_events, events_to_create,
                   events_to_delete, calendars, next_id, dry_run, run,
                   location_index, event_index, list_failed>>

\* lines 443-445: the call for the next date. With the arguments bound the
\* body of the fetcher would run (from "fetch_get" on).
MainCallFetcher ==
    /\ pc = "main_fetch"
    /\ date_index <= Len(sync_dates)
    /\ LET date_str == sync_dates[date_index]
           bound == binds(fetcher_arguments(date_str), fetcher_parameters)
       IN  /\ outbound' = Append(outbound,
                   Sent("call", <<date_str, throttle_seconds>>, bound))
           /\ IF bound
              THEN pc' = "fetch_get" /\ UNCHANGED date_index
              ELSE /\ pc' = on_fetch_failure(date_index).pc
                   /\ date_index' = on_fetch_failure(date_index).date_index
    /\ UNCHANGED <<throttle_seconds, days, calls, json_data,
                   reserve_date, daily_data, all_parsed_data, desired_state,
                   desired_slots, existing_events, events_to_create,
                   events_to_delete, calendars, next_id, dry_run, run,
                   location_index, event_index, list_failed>>

\* lines 86-93: the initial request of the fetcher and the search for the
\* token; without a token it goes on (line 97)
FetcherGet ==
    /\ pc = "fetch_get"
    /\ \E ok \in BOOLEAN, token \in Tokens :
          /\ ok \/ token = {}
          /\ outbound' = Append(outbound, Sent("get", token, ok))
          /\ pc' = IF ok THEN "fetch_sleep" ELSE "fetch_raised"
    /\ UNCHANGED <<throttle_seconds, date_index, days, calls, json_data,
                   reserve_date, daily_data, all_parsed_data, desired_state,
                   desired_slots, existing_events, events_to_create,
                   events_to_delete, calendars, next_id, dry_run, run,
                   location_index, event_index, list_failed>>

\* line 122
FetcherThrottle ==
    /\ pc = "fetch_sleep"
    /\ outbound' = Append(outbound, Sent("sleep", throttle_seconds, TRUE))
    /\ pc' = "fetch_post"
    /\ UNCHANGED <<throttle_seconds, date_index, days, calls, json_data,
                   reserve_date, daily_data, all_parsed_data, desired_state,
                   desired_slots, existing_events, events_to_create,
                   events_to_delete, calendars, next_id, dry_run, run,
                   location_index, event_index, list_failed>>

\* lines 123-125: the request for the date; its content is returned
FetcherPost ==
    /\ pc = "fetch_post"
    /\ \E ok \in BOOLEAN :
          /\ outbound' = Append(outbound,
                 Sent("post", sync_dates[date_index], ok))
          /\ IF ok
             THEN /\ json_data' \in SyncPayloads
                  /\ pc' = "fetch_returned"
             ELSE /\ pc' = "fetch_raised"
                  /\ UNCHANGED json_data
    /\ UNCHANGED <<throttle_seconds, date_index, days, calls,
                   reserve_date, daily_data, all_parsed_data, desired_state,
                   desired_slots, existing_events, events_to_create,
                   events_to_delete, calendars, next_id, dry_run, run,
                   location_index, event_index, list_failed>>

---------------------------------------------------------------------------
\* Specification SpecFetch: main from line 437 to the call of line 445, and
\* Workspace_hayward_data called with a date and a delay, its two parameters.

InitFetch ==
    /\ \/ pc = "main_csrf" /\ date_index = 1
       \/ pc = "fetch_get" /\ date_index \in 1..Len(sync_dates)
    /\ throttle_seconds \in Throttles
    /\ dry_run \in BOOLEAN
    /\ calendars \in [{calendar_id_at(i) : i \in 1..Len(LOCATION_TO_CALENDAR)}
                        -> SyncStored]
    /\ next_id = StoredUntitled.id + 1
    /\ outbound = <<>>
    /\ calls = <<>>
    /\ all_parsed_data = <<>>
    /\ json_data = Unused
    /\ run = 1
    /\ desired_state = <<>>
    /\ existing_events = <<>>
    /\ events_to_create = <<>>
    /\ events_to_delete = <<>>
    /\ location_index = 1
    /\ event_index = 1
    /\ list_failed = {}
    /\ reserve_date = Unused /\ daily_data = Unused
    /\ desired_slots = Unused /\ days = Unused

NextFetch ==
    \/ MainGetCsrfToken
    \/ MainCallFetcher
    \/ FetcherGet
    \/ FetcherThrottle
    \/ FetcherPost

SpecFetch == InitFetch /\ [][NextFetch]_vars

---------------------------------------------------------------------------
\* delete_all_events.py: main and its own Workspace_calendar_events and
\* delete_google_event. The page loop and the filter of its reader (lines
\* 73-100) are those of the reader above.

\* line 153: the default of --days
DefaultDays == 90

\* lines 168-174: the window of a run started on day 0
bulk_time_min == <<0, 0, 0>>
bulk_time_max(num_days) == <<num_days, 0, 0>>

\* lines 60-111: the reader of the tool. The request numbered failed_at
\* raises (none when 0); the except clauses log it and the events gathered
\* from the pages before are returned. read is [events, listed, requests,
\* raised]: the records kept, the items of the answered pages, the list
\* requests sent, and whether the last one raised.
RECURSIVE bulk_read_pages(_, _, _, _)
bulk_read_pages(matching, page_token, read, failed_at) ==
    IF read.requests + 1 = failed_at
    THEN [read EXCEPT !.requests = @ + 1, !.raised = TRUE]
    ELSE LET response == list_response(matching, page_token)
             now == [events |-> read.events \o kept_of(response.items),
                     listed |-> read.listed \o response.items,
                     requests |-> read.requests + 1,
                     raised |-> FALSE]
         IN  IF response.nextPageToken = {} THEN now
             ELSE bulk_read_pages(matching,
                                  CHOOSE token \in response.nextPageToken : TRUE,
                                  now, failed_at)

bulk_calendar_events(stored, time_min_iso, time_max_iso, failed_at) ==
    bulk_read_pages(events_list(stored, time_min_iso, time_max_iso), 0,
                    [events |-> <<>>, listed |-> <<>>, requests |-> 0,
                     raised |-> FALSE],
                    failed_at)

\* lines 136-146: whatever a delete raises is logged and the function
\* returns
bulk_delete_goes_on_when_gone(e) == e \in {NotFound, Gone}
bulk_delete_goes_on(e) == TRUE

\* lines 180-181 and 203: the next calendar; the run is complete after the
\* last one
BulkNextLocation ==
    /\ pc = "bulk_location"
    /\ pc' = IF location_index > Len(LOCATION_TO_CALENDAR)
             THEN "bulk_completed" ELSE "bulk_list"
    /\ UNCHANGED <<tool_vars, calls, json_data, reserve_date, daily_data,
                   all_parsed_data, desired_state, desired_slots,
                   existing_events, events_to_create, events_to_delete,
                   calendars, next_id, dry_run, run, location_index,
                   event_index, list_failed>>

\* lines 184-190: the listing, which never raises; without events the
\* calendar is left. The log keeps the items of the answered pages.
BulkListEvents ==
    /\ pc = "bulk_list"
    /\ LET calendar_id == calendar_id_at(location_index)
           stored == calendars[calendar_id]
       IN  \E failed_at \in 0..list_requests(stored, bulk_time_min,
                                             bulk_time_max(days)) :
              LET read == bulk_calendar_events(stored, bulk_time_min,
                                               bulk_time_max(days), failed_at)
              IN  /\ calls' = Append(calls, Request("list", calendar_id,
                                  read.listed,
                                  IF read.raised THEN ServerError ELSE Done))
                  /\ events_to_delete' = read.events
                  /\ list_failed' = IF read.raised
                                    THEN list_failed \cup {location_at(location_index)}
                                    ELSE list_failed
                  /\ IF read.events = <<>>
                     THEN /\ location_index' = location_index + 1
                          /\ pc' = "bulk_location"
                          /\ UNCHANGED event_index
                     ELSE /\ event_index' = 1
                          /\ pc' = "bulk_delete"
                          /\ UNCHANGED location_index
    /\ UNCHANGED <<tool_vars, json_data, reserve_date, daily_data,
                   all_parsed_data, desired_state, desired_slots,
                   existing_events, events_to_create, calendars, next_id,
                   dry_run, run>>

\* lines 194-197 and delete_google_event (lines 130-146): nothing in a dry
\* run; otherwise the delete removes the event or raises, and the loop goes
\* on. After the answers 404 and 410 the calendar does not hold the event.
BulkDeleteEvent ==
    /\ pc = "bulk_delete"
    /\ event_index <= Len(events_to_delete)
    /\ LET event_id == events_to_delete[event_index].id
           calendar_id == calendar_id_at(location_index)
       IN  IF dry_run
           THEN /\ event_index' = event_index + 1
                /\ UNCHANGED <<pc, calendars, calls>>
           ELSE \E answer \in DeleteAnswers :
                   /\ calls' = Append(calls, Request("delete", calendar_id,
                                   event_id, answer))
                   /\ calendars' = [calendars EXCEPT ![calendar_id] =
                          IF answer \in {Done, NotFound, Gone}
                          THEN events_delete(@, event_id) ELSE @]
                   /\ IF answer = Done \/ bulk_delete_goes_on(answer)
                      THEN event_index' = event_index + 1 /\ UNCHANGED pc
                      ELSE pc' = "bulk_exited" /\ UNCHANGED event_index
    /\ UNCHANGED <<tool_vars, json_data, reserve_date, daily_data,
                   all_parsed_data, desired_state, desired_slots,
                   existing_events, events_to_create, events_to_delete,
                   next_id, dry_run, run, location_index, list_failed>>

\* lines 199-200: the deletes are done, back to line 180
BulkDeletesDone ==
    /\ pc = "bulk_delete"
    /\ event_index > Len(events_to_delete)
    /\ location_index' = location_index + 1
    /\ pc' = "bulk_location"
    /\ UNCHANGED <<tool_vars, calls, json_data, reserve_date, daily_data,
                   all_parsed_data, desired_state, desired_slots,
                   existing_events, events_to_create, events_to_delete,
                   calendars, next_id, dry_run, run, event_index,
                   list_failed>>

---------------------------------------------------------------------------
\* Specification SpecBulk: one run of delete_all_events.main over in-memory
\* calendars.

\* the values of --days: none, up to and with the last date of the sync
\* range, past every stored event, the default
BulkDays ==
    {0, StoredUntitled.start[1], StoredUntitled.start[1] + 1,
     StoredLater.start[1] + 1, DefaultDays}

InitBulk ==
    /\ pc = "bulk_location"
    /\ days \in BulkDays
    /\ dry_run \in BOOLEAN
    /\ calendars \in [{calendar_id_at(i) : i \in 1..Len(LOCATION_TO_CALENDAR)}
                        -> SyncStored]
    /\ next_id = StoredUntitled.id + 1
    /\ calls = <<>>
    /\ events_to_delete = <<>>
    /\ location_index = 1
    /\ event_index = 1
    /\ list_failed = {}
    /\ run = 1
    /\ all_parsed_data = <<>>
    /\ desired_state = <<>>
    /\ existing_events = <<>>
    /\ events_to_create = <<>>
    /\ json_data = Unused /\ reserve_date = Unused /\ daily_data = Unused
    /\ desired_slots = Unused
    /\ outbound = Unused /\ throttle_seconds = Unused /\ date_index = Unused

NextBulk ==
    \/ BulkNextLocation
    \/ BulkListEvents
    \/ BulkDeleteEvent
    \/ BulkDeletesDone

SpecBulk == InitBulk /\ [][NextBulk]_vars

---------------------------------------------------------------------------
\* Claims about diff_events (specification SpecDiff).

\* The identity triples as the claims state them, read off the arguments.
DesiredTriples ==
    UNION {{<<desired_slots[i][1], iv[1], iv[2]>> : iv \in Range(desired_slots[i][2])} :
        i \in 1..Len(desired_slots)}

TripleOf(e) == <<e.summary, e.start, e.end>>

ExistingTriples == {TripleOf(e) : e \in Range(existing_events)}

\* C1: idempotence of the diff. Whenever the set of (summary, start, end)
\* triples of the existing events equals the set of desired (court, start,
\* end) triples, diff_events returns an empty events_to_create and an empty
\* events_to_delete.
C1_DiffIdempotent ==
    (pc = "diffed" /\ ExistingTriples = DesiredTriples)
        => (events_to_create = <<>> /\ events_to_delete = <<>>)

\* C1's case: the call returned for a calendar that holds exactly the desired
\* triples, two of them.
C1_Witness ==
    /\ pc = "diffed"
    /\ ExistingTriples = DesiredTriples
    /\ Cardinality(DesiredTriples) = 2
    /\ Len(existing_events) > 1

\* C2: events_to_create is exactly the desired triples that no existing event
\* carries, events_to_delete is exactly the ids of the existing events whose
\* triple is not desired, and no triple is both created and deleted.
C2_DiffExact ==
    pc = "diffed" =>
        /\ {TripleOf(e) : e \in Range(events_to_create)}
              = DesiredTriples \ ExistingTriples
        /\ Range(events_to_delete)
              = {e.id : e \in {x \in Range(existing_events) :
                                   TripleOf(x) \notin DesiredTriples}}
        /\ \A e \in Range(events_to_create) :
              DOMAIN e = {"summary", "start", "end"}
        /\ \A e \in Range(existing_events) :
              e.id \in Range(events_to_delete)
                  => TripleOf(e) \notin {TripleOf(c) : c \in Range(events_to_create)}

\* C2's case, the example of the claim: Court 1 09:00-10:00 is desired and
\* exists as "a", Court 3 12:00-13:00 exists as "c" and is not desired; the
\* call creates nothing and deletes only "c".
C2_Witness ==
    /\ pc = "diffed"
    /\ desired_slots = << <<Court1, << << <<1, 9, 0>>, <<1, 10, 0>> >> >> >> >>
    /\ existing_events =
          << [id |-> "a", summary |-> Court1, start |-> <<1, 9, 0>>, end |-> <<1, 10, 0>>],
             [id |-> "c", summary |-> Court3, start |-> <<1, 12, 0>>, end |-> <<1, 13, 0>>] >>
    /\ events_to_create = <<>>
    /\ events_to_delete = <<"c">>

---------------------------------------------------------------------------
\* Claims about consolidate_booked_slots (specification SpecCons).

\* the instant a rendered timestamp names, in minutes
Instant(ts) == ts[1] * 1440 + ts[2] * 60 + ts[3]

\* the label lies on the 30-minute grid: its minutes are "00" or "30"
OnGrid(label) == SubSeq(label, 4, 5) \in {<<"0", "0">>, <<"3", "0">>}

AllOnGrid(parsed_data) ==
    \A cell \in Range(cells_of(parsed_data)) :
        \A kv \in Range(cell.slots) : OnGrid(kv[1])

\* the interval list consolidate returned for a court, <<>> when it has none
OutputOf(location, court) ==
    IF DictHas(desired_state, location)
          /\ DictHas(DictGet(desired_state, location), court)
    THEN DictGet(DictGet(desired_state, location), court)
    ELSE <<>>

\* the starts of the booked slots of a cell, in minutes
BookedStarts(cell) ==
    {strptime(cell.date_str, kv[1]) : kv \in {x \in Range(cell.slots) : x[2]}}

\* C5: for one court on one date with labels on the 30-minute grid the result
\* is exactly the maximal runs of consecutive booked slots in ascending
\* order: every booked slot lies in exactly one interval, every slot of an
\* interval is booked, every length is a positive multiple of 30 minutes and
\* no interval ends where another starts.
C5_ConsolidationCorrect ==
    (pc = "consolidated" /\ Len(all_parsed_data) = 1
        /\ AllOnGrid(all_parsed_data)) =>
        \A cell \in Range(cells_of(all_parsed_data)) :
            LET out == OutputOf(cell.location, cell.court)
                booked == BookedStarts(cell)
                From(i) == Instant(out[i][1])
                To(i) == Instant(out[i][2])
            IN  /\ \A t \in booked :
                      Cardinality({i \in 1..Len(out) :
                          From(i) <= t /\ t + 30 <= To(i)}) = 1
                /\ \A i \in 1..Len(out) :
                      /\ To(i) > From(i)
                      /\ (To(i) - From(i)) % 30 = 0
                      /\ \A k \in 0..((To(i) - From(i)) \div 30 - 1) :
                            From(i) + 30 * k \in booked
                /\ \A i, j \in 1..Len(out) :
                      /\ To(i) # From(j)
                      /\ i < j => From(i) < From(j)

\* C5's case, the example of the claim: 09:00, 09:30 and 10:30 booked (here
\* entered out of order) give [09:00, 10:00) and [10:30, 11:00).
C5_Witness ==
    /\ pc = "consolidated"
    /\ all_parsed_data =
          << <<1, << <<Mervin, << <<Court1,
              << <<L1030, TRUE>>, <<L0900, TRUE>>, <<L0930, TRUE>> >> >> >> >> >> >> >>
    /\ desired_state =
          << <<Mervin, << <<Court1,
              << << <<1, 9, 0>>, <<1, 10, 0>> >>,
                 << <<1, 10, 30>>, <<1, 11, 0>> >> >> >> >> >> >>

DatesAscending(parsed_data) ==
    \A i, j \in 1..Len(parsed_data) : i < j => parsed_data[i][1] < parsed_data[j][1]

\* Original statement of C6, read with slots as the 30-minute units of the
\* glossary (labels on the 30-minute grid): with dates ascending, every
\* court's interval list is in non-decreasing start order, without overlap
\* and without two intervals sharing a boundary. Violated by 23:30 booked on
\* one date and 00:00 on the next.
C6_Original ==
    (pc = "consolidated" /\ DatesAscending(all_parsed_data)
        /\ AllOnGrid(all_parsed_data)) =>
        \A c \in ConsCourts :
            LET out == OutputOf(c[1], c[2])
            IN  \A i, j \in 1..Len(out) :
                    /\ i < j => Instant(out[i][1]) <= Instant(out[j][1])
                    /\ i < j => Instant(out[i][2]) <= Instant(out[j][1])
                    /\ i # j => Instant(out[i][2]) # Instant(out[j][1])

\* The same statement over labels of any minute: violated as well, by the
\* overlapping intervals of 09:00 or 09:30 and 09:15.
C6_OriginalAnyLabels ==
    (pc = "consolidated" /\ DatesAscending(all_parsed_data)) =>
        \A c \in ConsCourts :
            LET out == OutputOf(c[1], c[2])
            IN  \A i, j \in 1..Len(out) :
                    i < j => Instant(out[i][2]) <= Instant(out[j][1])

\* C6, amended: with dates ascending and labels on the 30-minute grid, every
\* court's interval list is in non-decreasing start order, without overlap,
\* and no two intervals that start on the same date share a boundary (an
\* interval ending at midnight is not merged with the next date's 00:00).
C6_IntervalsOrderedDisjoint ==
    (pc = "consolidated" /\ DatesAscending(all_parsed_data)
        /\ AllOnGrid(all_parsed_data)) =>
        \A c \in ConsCourts :
            LET out == OutputOf(c[1], c[2])
            IN  \A i, j \in 1..Len(out) :
                    /\ i < j => Instant(out[i][1]) <= Instant(out[j][1])
                    /\ i < j => Instant(out[i][2]) <= Instant(out[j][1])
                    /\ (i # j /\ out[i][1][1] = out[j][1][1])
                          => Instant(out[i][2]) # Instant(out[j][1])

\* C6's case: one court booked on both dates, two intervals on the first.
C6_Witness ==
    /\ pc = "consolidated"
    /\ DatesAscending(all_parsed_data)
    /\ AllOnGrid(all_parsed_data)
    /\ \E c \in ConsCourts :
          LET out == OutputOf(c[1], c[2])
          IN  /\ Len(out) = 3
              /\ out[1][1][1] = 1 /\ out[2][1][1] = 1 /\ out[3][1][1] = 2

\* C7: a court is a key of its group exactly when it has a booked slot on
\* some date; no court is mapped to an empty list and no group to an empty
\* mapping.
C7_AbsentWhenUnbooked ==
    pc = "consolidated" =>
        /\ \A c \in ConsCourts :
              (DictHas(desired_state, c[1])
                  /\ DictHas(DictGet(desired_state, c[1]), c[2]))
              <=> \E cell \in Range(cells_of(all_parsed_data)) :
                      /\ cell.location = c[1] /\ cell.court = c[2]
                      /\ \E kv \in Range(cell.slots) : kv[2]
        /\ IsDict(desired_state)
        /\ \A g \in Range(desired_state) :
              /\ g[2] # <<>>
              /\ IsDict(g[2])
              /\ \A s \in Range(g[2]) : s[2] # <<>>

\* C7's case: Court 1 has a booked slot, Court 2 of the same group only a
\* free one; the group is present with Court 1 alone.
C7_Witness ==
    /\ pc = "consolidated"
    /\ \E cell \in Range(cells_of(all_parsed_data)) :
          /\ cell.court = Court2
          /\ cell.slots = << <<L0930, FALSE>> >>
    /\ DictHas(desired_state, Mervin)
    /\ DictKeys(DictGet(desired_state, Mervin)) = <<Court1>>

\* C7's second case: every slot of the group is free and the result is empty.
C7_WitnessEmpty ==
    /\ pc = "consolidated"
    /\ Len(cells_of(all_parsed_data)) = 2
    /\ desired_state = <<>>

---------------------------------------------------------------------------
\* Claims about parse_reservation_data (specification SpecParse). The names
\* are taken apart here by position, independently of the parser's split.

\* the resource entries of the payload
Entries ==
    IF json_data.shape = "object" /\ json_data.resources.is_list
    THEN json_data.resources.items ELSE <<>>

EntryName(i) == Chars(Entries[i].resource_name)

HasMarker(name) ==
    \E i \in 1..(Len(name) - Len(TennisCourt) + 1) :
        SubSeq(name, i, i + Len(TennisCourt) - 1) = TennisCourt

\* the positions where " - " occurs
SeparatorsOf(name) ==
    {i \in 1..(Len(name) - 2) : SubSeq(name, i, i + 2) = Separator}

FirstSeparator(name) ==
    CHOOSE i \in SeparatorsOf(name) : \A j \in SeparatorsOf(name) : i <= j

\* the text before and the text after the first separator
GroupOf(name) == SubSeq(name, 1, FirstSeparator(name) - 1)
RestOf(name) == SubSeq(name, FirstSeparator(name) + 3, Len(name))

\* the marker and exactly one separator
IsTaken(name) == HasMarker(name) /\ Cardinality(SeparatorsOf(name)) = 1

\* the group and the sub-resource a taken name is recorded under
PairOf(name) == <<GroupOf(name), Replace(RestOf(name), TennisCourtSp, CourtSp)>>

ParseReturned == pc = "parsed" /\ daily_data.raised = ""

\* the <<group, sub-resource>> pairs of the result, under the given date
RecordedPairs ==
    IF DictHas(daily_data.result, reserve_date)
    THEN UNION {{<<g[1], c[1]>> : c \in Range(g[2])} :
                    g \in Range(DictGet(daily_data.result, reserve_date))}
    ELSE {}

\* the payload reaches the loop over its resources
WellFormedTop ==
    /\ json_data.shape = "object"
    /\ json_data.time_slots.is_list
    /\ json_data.resources.is_list

Court == <<"C", "o", "u", "r", "t">>

\* Original statement of C8: every entry whose name holds the marker (and a
\* separator to split on) is split on the first " - ", "Tennis Court" is
\* rewritten to "Court" in the second half, and the pair is recorded; the
\* result holds nothing that comes from an entry without the marker, and such
\* an entry raises nothing. Violated by "Bay - East - Tennis Court 1", which
\* is not recorded, and by "Bay - Tennis Court", recorded as "Tennis Court".
C8_Original ==
    pc = "parsed" =>
        /\ daily_data.raised = "" =>
              /\ \A i \in 1..Len(Entries) :
                    (HasMarker(EntryName(i)) /\ SeparatorsOf(EntryName(i)) # {})
                        => <<GroupOf(EntryName(i)),
                             Replace(RestOf(EntryName(i)), TennisCourt, Court)>>
                                \in RecordedPairs
              /\ \A p \in RecordedPairs :
                    \E i \in 1..Len(Entries) :
                        /\ HasMarker(EntryName(i))
                        /\ SeparatorsOf(EntryName(i)) # {}
                        /\ p = <<GroupOf(EntryName(i)),
                                 Replace(RestOf(EntryName(i)), TennisCourt, Court)>>
        /\ (WellFormedTop /\ \A i \in 1..Len(Entries) :
                HasMarker(EntryName(i)) => Entries[i].time_slot_details.is_list)
              => daily_data.raised = ""

\* C8: when the call returns, its result has the given date as only key and
\* holds under it exactly the pairs of the entries whose name has the marker
\* and exactly one " - ": the text before the separator as group, the text
\* after it with "Tennis Court " rewritten to "Court " as sub-resource. Every
\* other entry (no marker, no separator, several separators) leaves no
\* output and raises nothing: the call returns whenever time_slots and
\* resources are lists and the time_slot_details of every taken entry is one.
C8_NameHandling ==
    pc = "parsed" =>
        /\ daily_data.raised = "" =>
              /\ DictKeys(daily_data.result) = <<reserve_date>>
              /\ RecordedPairs =
                    {PairOf(EntryName(i)) :
                        i \in {j \in 1..Len(Entries) : IsTaken(EntryName(j))}}
        /\ (WellFormedTop /\ \A i \in 1..Len(Entries) :
                IsTaken(EntryName(i)) => Entries[i].time_slot_details.is_list)
              => daily_data.raised = ""

\* C8's case: a name with two separators, a name without the marker whose
\* time_slot_details is not a list, and "Mervin - Tennis Court 1"; the call
\* returns Court 1 under Mervin and nothing else.
C8_Witness ==
    /\ pc = "parsed"
    /\ json_data.shape = "object"
    /\ json_data.time_slots = List(<<"09:00-09:30">>)
    /\ json_data.resources = List(<<
          [resource_name |-> "Bay - East - Tennis Court 1",
           time_slot_details |-> List(<<>>)],
          [resource_name |-> "Bay - Pool", time_slot_details |-> NotAList],
          [resource_name |-> "Mervin - Tennis Court 1",
           time_slot_details |-> List(<<>>)] >>)
    /\ daily_data = Returned(
          << <<1, << <<Mervin, << <<Court1, << <<L0900, FALSE>> >> >> >> >> >> >> >>)

\* the taken entries whose pair no later taken entry of the payload has: the
\* ones whose slot mapping is the one found in the result
LastTaken ==
    {i \in 1..Len(Entries) :
        /\ IsTaken(EntryName(i))
        /\ \A j \in (i + 1)..Len(Entries) :
              IsTaken(EntryName(j)) => PairOf(EntryName(j)) # PairOf(EntryName(i))}

\* the slot mapping recorded for entry i
SlotMapOf(i) ==
    DictGet(DictGet(DictGet(daily_data.result, reserve_date),
                    PairOf(EntryName(i))[1]), PairOf(EntryName(i))[2])

\* the first five characters of the slot label at index idx
KeyAt(idx) == SubSeq(Chars(json_data.time_slots.items[idx]), 1, 5)

\* a detail exists at index idx of entry i and its status equals 1
BookedAt(i, idx) ==
    /\ idx <= Len(Entries[i].time_slot_details.items)
    /\ Entries[i].time_slot_details.items[idx].status = {1}

\* Original statement of C9: when the call returns, the slot mapping of a
\* recognized resource has one entry per slot label, keyed by the label's
\* first five characters, whose value is true exactly when a detail exists
\* at the same index with status 1; read for slot labels that are pairwise
\* distinct. Violated by two labels with the same first five characters: one
\* entry for two labels, valued by the later one.
C9_Original ==
    (ParseReturned /\ \A a, b \in 1..Len(json_data.time_slots.items) :
            a # b => json_data.time_slots.items[a] # json_data.time_slots.items[b]) =>
        \A i \in LastTaken :
            /\ Len(SlotMapOf(i)) = Len(json_data.time_slots.items)
            /\ \A idx \in 1..Len(json_data.time_slots.items) :
                  /\ DictHas(SlotMapOf(i), KeyAt(idx))
                  /\ DictGet(SlotMapOf(i), KeyAt(idx)) = BookedAt(i, idx)

\* C9: when the call returns, the slot mapping of a recognized resource has
\* one entry per distinct five-character prefix of the slot labels, and its
\* value is that of the last slot with the prefix: true exactly when a detail
\* exists at that slot's index and its status equals 1 (any other status, no
\* status, or no detail at the index gives false; details beyond the slots
\* play no part).
C9_SlotZip ==
    ParseReturned =>
        \A i \in LastTaken :
            /\ IsDict(SlotMapOf(i))
            /\ Range(DictKeys(SlotMapOf(i)))
                  = {KeyAt(idx) : idx \in 1..Len(json_data.time_slots.items)}
            /\ \A idx \in 1..Len(json_data.time_slots.items) :
                  (\A j \in (idx + 1)..Len(json_data.time_slots.items) :
                        KeyAt(j) # KeyAt(idx))
                      => DictGet(SlotMapOf(i), KeyAt(idx)) = BookedAt(i, idx)

\* C9's case: "09:00-09:30" has a detail with status 1, "09:00:00" after it
\* has no detail; the one entry 09:00 is false.
C9_Witness ==
    /\ ParseReturned
    /\ json_data.time_slots = List(<<"09:00-09:30", "09:00:00">>)
    /\ json_data.resources = List(<<
          [resource_name |-> "Mervin - Tennis Court 1",
           time_slot_details |-> List(<<[status |-> {1}]>>)] >>)
    /\ DictGet(daily_data.result, 1)
          = << <<Mervin, << <<Court1, << <<L0900, FALSE>> >> >> >> >> >>

\* C9's plain case: one slot, booked, and a second detail beyond the slots.
C9_WitnessBeyond ==
    /\ ParseReturned
    /\ json_data.time_slots = List(<<"09:00-09:30">>)
    /\ json_data.resources = List(<<
          [resource_name |-> "Mervin - Tennis Court 1",
           time_slot_details |-> List(<<[status |-> {1}], [status |-> {0}]>>)] >>)
    /\ DictGet(daily_data.result, 1)
          = << <<Mervin, << <<Court1, << <<L0900, TRUE>> >> >> >> >> >>

\* the keys a defective payload offends on
OffendingKeys ==
    CASE json_data.shape \in {"json_null", "json_array", "object_without_body"} ->
            {"body"}
      [] json_data.shape \in {"body_null", "body_without_availability"} ->
            {"availability"}
      [] json_data.shape = "availability_null" -> {"time_slots", "resources"}
      [] OTHER ->
            (IF json_data.time_slots.is_list THEN {} ELSE {"time_slots"})
            \cup (IF json_data.resources.is_list THEN {} ELSE {"resources"})
            \cup (IF \E i \in 1..Len(Entries) :
                        ~Entries[i].time_slot_details.is_list
                  THEN {"time_slot_details"} ELSE {})

\* Statement of C10: a payload that cannot be decoded, lacks "body" or
\* "availability", or has a time_slots, resources or time_slot_details that
\* is not a list makes the call raise ValueError, naming an offending key
\* (an undecodable payload has none), with no result. Violated by
\* {"body": null}, where the call raises TypeError, and by a resource without
\* the marker whose time_slot_details is not a list, where it returns.
C10_ParserRejection ==
    (pc = "parsed" /\ (json_data.shape = "not_json" \/ OffendingKeys # {})) =>
        /\ daily_data.raised = "ValueError"
        /\ daily_data.result = <<>>
        /\ json_data.shape # "not_json"
              => daily_data.names \cap OffendingKeys # {}

---------------------------------------------------------------------------
\* Claims about the reconciliation loop of main (specification SpecSync).

\* every sub-resource name of the availability starts with "Court "
NamesFollowConvention ==
    \A cell \in Range(cells_of(all_parsed_data)) : StartsWith(cell.court, CourtSp)

\* the triples of the "Court " events a calendar holds inside the window
CalendarCourtTriples(calendar_id) ==
    {<<e.summary, e.start, e.end>> :
        e \in {x \in Range(events_list(calendars[calendar_id], time_min, time_max)) :
                  StartsWith(summary_of(x), CourtSp)}}

\* the triples desired for a location, none when desired_state has no entry
SyncDesiredTriples(location) ==
    IF DictHas(desired_state, location)
    THEN UNION {{<<c[1], iv[1], iv[2]>> : iv \in Range(c[2])} :
                    c \in Range(DictGet(desired_state, location))}
    ELSE {}

\* Statement of C3: after a run that applied every create and every delete
\* and listed every calendar, the diff of the next run over the same
\* availability is empty. Violated by a court the parser names
\* "Indoor Court 1": its event is created, the reader leaves it out, and the
\* next run creates it again.
C3_RoundTripStable ==
    (pc = "sync_create" /\ event_index = 1 /\ run = 2 /\ ~dry_run
        /\ list_failed = {}) =>
        /\ events_to_create = <<>>
        /\ events_to_delete = <<>>

\* Statement of C4, read for sub-resource names that start with "Court ":
\* when a run that is not dry completes and no listing has failed, the
\* "Court " events of every configured calendar inside the window are the
\* desired events of its location, none for a location without a booked
\* slot. Violated by a location without a booked slot whose calendar holds
\* an event: the location is skipped and the event stays.
C4_Convergence ==
    (pc = "completed" /\ ~dry_run /\ list_failed = {}
        /\ NamesFollowConvention) =>
        \A i \in 1..Len(LOCATION_TO_CALENDAR) :
            CalendarCourtTriples(calendar_id_at(i))
                = SyncDesiredTriples(location_at(i))

\* What holds in place of C3: the next diff is empty when every sub-resource
\* name of the availability starts with "Court ".
C3_StableWhenPrefixed == NamesFollowConvention => C3_RoundTripStable

\* What holds in place of C4: the calendars match when every configured
\* location has an entry in desired_state.
C4_ConvergesWhenPresent ==
    (\A i \in 1..Len(LOCATION_TO_CALENDAR) :
        DictHas(desired_state, location_at(i))) => C4_Convergence

\* the requests of this run of one kind, and those sent to one calendar
CallsOf(op) == SelectSeq(calls, LAMBDA c : c.op = op)
CallsTo(calendar_id) == SelectSeq(calls, LAMBDA c : c.calendar_id = calendar_id)
LastCall == calls[Len(calls)]

\* main is inside the body of the loop of line 465 (or has exited from it)
InLocation == pc \in {"sync_list", "sync_diff", "sync_create", "sync_delete"}

\* C11: in a dry run no step changes a calendar and the only requests sent
\* to the calendar service are listings, while the listing and the diff are
\* what they are in any run: the step from the diff to the creates follows a
\* listing of the location's calendar that was answered, existing_events is
\* what the reader returns for the calendar, and the two lists are the
\* differ's for the location's desired state.
C11_DryRunFrame ==
    [][dry_run =>
        /\ calendars' = calendars
        /\ \A i \in 1..Len(calls') : calls'[i].op = "list"
        /\ (pc = "sync_diff" /\ pc' = "sync_create") =>
              LET calendar_id == calendar_id_at(location_index)
                  r == diff_events(
                          DictGet(desired_state, location_at(location_index)),
                          Workspace_calendar_events(calendars[calendar_id],
                                                    time_min, time_max),
                          location_at(location_index))
              IN  /\ LastCall.op = "list" /\ LastCall.answer = Done
                  /\ LastCall.calendar_id = calendar_id
                  /\ events_to_create' = r.events_to_create
                  /\ events_to_delete' = r.events_to_delete
       ]_vars

\* a dry run that found an event to create and an event to delete for the
\* last location has completed
C11_Witness ==
    /\ dry_run /\ pc = "completed"
    /\ events_to_create # <<>> /\ events_to_delete # <<>>
    /\ calls # <<>>

\* C12: among the requests of a run, no insert for a calendar comes after a
\* delete for that calendar; and once a delete has been issued for the
\* location main is at, the inserts issued for its calendar are all the
\* events of events_to_create, in order, each one answered.
C12_CreatesBeforeDeletes ==
    /\ \A i, j \in 1..Len(calls) :
          (i < j /\ calls[i].op = "delete" /\ calls[j].op = "insert")
              => calls[i].calendar_id # calls[j].calendar_id
    /\ (InLocation \/ pc = "exited") =>
          LET mine == CallsTo(calendar_id_at(location_index))
              inserts == SelectSeq(mine, LAMBDA c : c.op = "insert")
          IN  (\E i \in 1..Len(mine) : mine[i].op = "delete") =>
                 /\ Len(inserts) = Len(events_to_create)
                 /\ \A i \in 1..Len(inserts) :
                       /\ inserts[i].what = events_to_create[i]
                       /\ inserts[i].answer = Done

\* a run has inserted into a calendar and then deleted from it
C12_Witness ==
    /\ pc = "sync_delete"
    /\ \E i, j \in 1..Len(calls) :
          /\ i < j
          /\ calls[i].op = "insert" /\ calls[j].op = "delete"
          /\ calls[i].calendar_id = calls[j].calendar_id

\* Statement of C13: in a run that is not dry, after a delete the service
\* answered with 404 or 410 the run goes on, and after a delete that failed
\* in another way the run has exited. Violated by the answer 410: its
\* message does not hold '404', so the run exits.
C13_DeleteTolerance ==
    (~dry_run /\ calls # <<>> /\ LastCall.op = "delete"
        /\ pc \in {"sync_delete", "exited"}) =>
        /\ LastCall.answer \in {NotFound, Gone} => pc = "sync_delete"
        /\ LastCall.answer = ServerError => pc = "exited"

\* what the service lists for the calendar of the location main is at
Listed ==
    events_list(calendars[calendar_id_at(location_index)], time_min, time_max)

\* the event has a title that starts with "Court "
HasCourtTitle(e) ==
    /\ "summary" \in DOMAIN e
    /\ Len(e.summary) >= 6
    /\ \A i \in 1..6 : e.summary[i] = <<"C", "o", "u", "r", "t", " ">>[i]

\* C14: after an answered listing, existing_events holds, in the order the
\* service lists them, exactly the listed events whose title starts with
\* "Court ", each with the keys id, summary, start and end and the listed
\* values; and the requests sent are as many as the pages of PageSize events
\* the listing has (one when it is empty).
C14_ReaderCorrect ==
    pc = "sync_diff" =>
        /\ existing_events = SelectSeq(Listed, HasCourtTitle)
        /\ \A i \in 1..Len(existing_events) :
              DOMAIN existing_events[i] = {"id", "summary", "start", "end"}
        /\ LastCall.what =
              IF Listed = <<>> THEN 1
              ELSE (Len(Listed) + PageSize - 1) \div PageSize

\* a listing of more than one page whose events are one with a "Court "
\* title, one with another title and one without a title
C14_Witness ==
    /\ pc = "sync_diff"
    /\ LastCall.what > 1
    /\ existing_events # <<>>
    /\ \E i, j \in 1..Len(Listed) :
          /\ "summary" \notin DOMAIN Listed[i]
          /\ "summary" \in DOMAIN Listed[j] /\ ~HasCourtTitle(Listed[j])

\* the listing of a calendar has failed in this run
ListFailed(calendar_id) ==
    \E i \in 1..Len(calls) :
        /\ calls[i].op = "list" /\ calls[i].calendar_id = calendar_id
        /\ calls[i].answer # Done

\* the writes of this run to a calendar
WritesTo(calendar_id) ==
    SelectSeq(CallsTo(calendar_id), LAMBDA c : c.op \in {"insert", "delete"})

LastLocation == Len(LOCATION_TO_CALENDAR)

\* C17: a calendar whose listing failed in this run gets no insert and no
\* delete; the failure does not end the run (a run that has exited did so
\* after an insert or a delete); and in a completed run every configured
\* location with an entry in desired_state has had its calendar listed, the
\* last one, when its listing was answered in a run that is not dry, with
\* one insert per event to create and one delete per event to delete, and
\* the exit status is 0.
C17_ReadFailureSkips ==
    /\ \A i \in 1..Len(LOCATION_TO_CALENDAR) :
          ListFailed(calendar_id_at(i)) => WritesTo(calendar_id_at(i)) = <<>>
    /\ pc = "exited" => LastCall.op \in {"insert", "delete"}
    /\ pc = "completed" =>
          /\ exit_status = 0
          /\ \A i \in 1..Len(LOCATION_TO_CALENDAR) :
                DictHas(desired_state, location_at(i)) =>
                    \E k \in 1..Len(calls) :
                        /\ calls[k].op = "list"
                        /\ calls[k].calendar_id = calendar_id_at(i)
          /\ (/\ DictHas(desired_state, location_at(LastLocation))
              /\ ~ListFailed(calendar_id_at(LastLocation))
              /\ ~dry_run) =>
                LET writes == WritesTo(calendar_id_at(LastLocation))
                IN  Len(writes) = Len(events_to_create) + Len(events_to_delete)

\* a run that is not dry has completed: the listing of the first calendar
\* failed, the last location had events to create and they were inserted
C17_Witness ==
    /\ pc = "completed" /\ ~dry_run
    /\ ListFailed(calendar_id_at(1))
    /\ ~ListFailed(calendar_id_at(LastLocation))
    /\ events_to_create # <<>>
    /\ WritesTo(calendar_id_at(LastLocation)) # <<>>

\* a write of the run that failed: an insert that was not answered, a delete
\* that raised anything but a 404
FailedWrite(c) ==
    \/ c.op = "insert" /\ c.answer # Done
    \/ c.op = "delete" /\ c.answer \notin {Done, NotFound}

C13_ToleratesNotFoundOnly ==
    (~dry_run /\ calls # <<>> /\ LastCall.op = "delete"
        /\ pc \in {"sync_delete", "exited"}) =>
        /\ LastCall.answer = NotFound => pc = "sync_delete"
        /\ LastCall.answer \in {Gone, ServerError} => pc = "exited"

\* the calendars of the configured locations
ConfiguredCalendars ==
    {calendar_id_at(i) : i \in 1..Len(LOCATION_TO_CALENDAR)}

\* the configured location of a calendar
LocationOf(calendar_id) ==
    location_at(CHOOSE i \in 1..Len(LOCATION_TO_CALENDAR) :
                    calendar_id_at(i) = calendar_id)

\* the event lies in the window main lists
InSyncWindow(e) ==
    /\ fromisoformat(e.end) > fromisoformat(time_min)
    /\ fromisoformat(e.start) < fromisoformat(time_max)

\* the last listing this run has requested
LastListing == CallsOf("list")[Len(CallsOf("list"))]

\* C21: in every step of a run, each request of the run went to the calendar
\* of a configured location that has an entry in desired_state; a delete
\* that is requested names an id of existing_events, which the last listing
\* of the run returned for that same calendar, and the event stored under
\* that id has a title that starts with "Court " and lies in the listed
\* window; and every event that leaves a calendar has such a title and lies
\* in the window.
C21_OwnershipFrame ==
    [][/\ \A k \in 1..Len(calls') :
             /\ calls'[k].calendar_id \in ConfiguredCalendars
             /\ DictHas(desired_state', LocationOf(calls'[k].calendar_id))
       /\ (Len(calls') = Len(calls) + 1 /\ calls'[Len(calls')].op = "delete") =>
             LET c == calls'[Len(calls')]
             IN  /\ \E i \in 1..Len(existing_events) :
                       existing_events[i].id = c.what
                 /\ LastListing.calendar_id = c.calendar_id
                 /\ LastListing.answer = Done
                 /\ \A e \in Range(calendars[c.calendar_id]) :
                       e.id = c.what => HasCourtTitle(e) /\ InSyncWindow(e)
       /\ \A calendar_id \in ConfiguredCalendars :
             \A e \in Range(calendars[calendar_id]) :
                 e \notin Range(calendars'[calendar_id]) =>
                     HasCourtTitle(e) /\ InSyncWindow(e)
      ]_vars

\* a run that is not dry has completed over an availability that books a
\* court of a location without a calendar: an event was deleted from the
\* last calendar, which still holds the lesson, the event without a title
\* and the "Court 1" event after the window
C21_Witness ==
    /\ pc = "completed" /\ ~dry_run
    /\ DictHas(desired_state, Weekes)
    /\ \E k \in 1..Len(calls) :
          /\ calls[k].op = "delete" /\ calls[k].answer = Done
          /\ calls[k].calendar_id = calendar_id_at(LastLocation)
    /\ {StoredLesson, StoredUntitled, StoredLater}
          \subseteq Range(calendars[calendar_id_at(LastLocation)])

---------------------------------------------------------------------------
\* Claims about the fetch loop of main and the fetcher (specification
\* SpecFetch).

\* main is in its fetch loop, or an exception has ended it there
InMain == pc \in {"main_csrf", "main_fetch", "raised"}

\* the body of Workspace_hayward_data runs, has returned or has raised
InFetcher ==
    pc \in {"fetch_get", "fetch_sleep", "fetch_post", "fetch_returned",
            "fetch_raised"}

\* the requests that went out
Requests == SelectSeq(outbound, LAMBDA s : s.kind \in {"get", "post"})

\* the dates requested from the source
Posts == SelectSeq(outbound, LAMBDA s : s.kind = "post")

\* Statement of C15: a run of main has ended and every request it sent was
\* answered well; then one request went out for each date of the sync range,
\* in ascending order, and the exit status is 0. Violated by every run: the
\* call of line 445 raises TypeError at the first date.
C15_SuccessPath ==
    (pc \in {"completed", "exited", "raised"}
        /\ \A i \in 1..Len(Requests) : Requests[i].ok) =>
        /\ Len(Posts) = Len(sync_dates)
        /\ \A i \in 1..Len(Posts) : Posts[i].arg = sync_dates[i]
        /\ exit_status = 0

\* C16: once a step of the fetch loop of main has failed (the request of
\* get_csrf_token, or the call of the fetcher for a date), it is the last
\* thing the run did towards the source, the run has ended with status 1
\* and no request has been sent to a calendar; and no step of the fetch
\* loop changes a calendar.
C16_FailFast ==
    /\ [](InMain =>
            \A i \in 1..Len(outbound) :
                ~outbound[i].ok =>
                    /\ i = Len(outbound)
                    /\ pc = "raised" /\ exit_status = 1
                    /\ calls = <<>>)
    /\ [][InMain => calendars' = calendars]_vars

\* the call of the fetcher for the first date raised and ended a run that
\* is not dry, its calendars holding events
C16_Witness ==
    /\ pc = "raised" /\ ~dry_run
    /\ outbound[Len(outbound)]
           = Sent("call", <<sync_dates[1], throttle_seconds>>, FALSE)
    /\ \A i \in 1..Len(LOCATION_TO_CALENDAR) :
          calendars[calendar_id_at(i)] # <<>>

\* Statement of C19, for the requests of Workspace_hayward_data: every
\* request it sends comes right after a sleep of throttle_seconds. Violated
\* by its first request (line 88), which goes out before the sleep of
\* line 122.
C19_ThrottleOrdering ==
    InFetcher =>
        \A i \in 1..Len(outbound) :
            outbound[i].kind \in {"get", "post"} =>
                /\ i > 1
                /\ outbound[i - 1] = Sent("sleep", throttle_seconds, TRUE)

\* What holds in place of C19: the request for the date comes right after
\* a sleep of throttle_seconds.
C19_PostAfterSleep ==
    InFetcher =>
        \A i \in 1..Len(outbound) :
            outbound[i].kind = "post" =>
                /\ i > 1
                /\ outbound[i - 1] = Sent("sleep", throttle_seconds, TRUE)

---------------------------------------------------------------------------
\* Claims about delete_all_events.main (specification SpecBulk).

\* the position of a calendar among the configured ones
IndexOf(calendar_id) ==
    CHOOSE i \in 1..Len(LOCATION_TO_CALENDAR) : calendar_id_at(i) = calendar_id

\* the loop of line 180 is done with the calendar
DoneWith(calendar_id) ==
    pc = "bulk_completed" \/ IndexOf(calendar_id) < location_index

\* the list requests and the delete requests a calendar got
ListsTo(calendar_id) ==
    SelectSeq(CallsTo(calendar_id), LAMBDA c : c.op = "list")
DeletesTo(calendar_id) ==
    SelectSeq(CallsTo(calendar_id), LAMBDA c : c.op = "delete")

\* what the service lists for the calendar in the window of the run
BulkListed(calendar_id) ==
    events_list(calendars[calendar_id], bulk_time_min, bulk_time_max(days))

=============================================================================
